---------------------------- MODULE Spec2Model ----------------------------
(***************************************************************************)
(* Model of the globepretty controller (the Globe wrapper that adds        *)
(* auto-rotation, idle resume and overlays to globe.gl).                   *)
(*                                                                         *)
(* Units: altitudes are integers in steps of 5e-6 planet radii (so 0.4 is  *)
(* 80000 and 0.01 is 2000); rotation speeds are integers in steps of 0.01  *)
(* (so 0.35 is 35); time is in milliseconds.                               *)
(*                                                                         *)
(* A JavaScript value that may be undefined/null is a set: {} is           *)
(* undefined, {x} is the value x.                                          *)
(***************************************************************************)
EXTENDS Integers, Sequences, FiniteSets, TLC

VARIABLES
  opts,                 \* the options record after the defaults are merged
  planet,               \* the planet record in use
  controls,             \* orbit controls: autoRotate, autoRotateSpeed
  pov,                  \* the camera's point of view (lat, lng, altitude)
  _globeready,          \* set one timer tick after the ready handler ends
  readyPc,              \* position of the async onGlobeReady handler
  timers,               \* pending setTimeout entries of the host event loop
  _nonInteractionTimer, \* handle of the idle timer, or undefined/null
  _prevLatLngAlt,       \* the previous view sample, or undefined
  _spinspeed,           \* the stored rotation speed, or undefined
  _surface,             \* the surface mesh has been built
  _cloudsshown,         \* the clouds' visibility flag
  _solar,               \* the solar calculator module has been imported
  surfaceOpacity,       \* opacity of the surface material, once it exists
  sunPosition,          \* the day/night shader's sunPosition uniform
  globeRotation,        \* the day/night shader's globeRotation uniform
  _prevSurfaceOpacity,  \* the opacity _changeSurfaceOpacity set last
  camera,               \* the camera's near and far planes
  limits,               \* controls.minDistance and controls.maxDistance
  facing,               \* controls.facing.y, once three.js is loaded
  maxLevel,             \* g.globeTileEngineMaxLevel(), the widget's setting
  surfaceInScene,       \* the surface mesh is attached to the scene
  sunDate,              \* history: the instant the sun was last computed for
  _clouds,              \* the clouds mesh the controller refers to, if any
  builds,               \* cloud builds in flight, each with who awaits it
  cloudsInScene,        \* the clouds meshes attached to the scene
  frames,               \* rotateClouds callbacks requested for the next frame
  cloudsRotation,       \* _clouds.rotation.y, in steps of cloudsRotateSpeed
  lastOp,               \* history: the step just taken, and its spinGlobe calls
  hist,                 \* history: arguments of the last HistLen spinGlobe calls
  lastSet,              \* history: the last non-zero speed given to spinGlobe
  sinceInteraction,     \* history: ms since _onInteraction last armed the timer
  resumeChecks,         \* history: resume checks run since that moment
  asked,                \* history: the dayMode the caller asked for
  tornDown,             \* history: the widget has been destroyed
  _onZoomCbfn,          \* the user's zoom callback, if one is registered
  _onClickCbfn,         \* the user's click callback of each element, if any
  three                 \* Globe.THREE is set; the _loadThreeJS calls awaiting
                        \* the import; the wrappers put round controls.update

\* the surface overlay without the rendering library's handle
surfaceRest == <<_solar, surfaceOpacity, sunPosition, globeRotation,
                 _prevSurfaceOpacity, camera, limits, facing, maxLevel,
                 surfaceInScene, sunDate>>
surfaceState == <<surfaceRest, three>>
cloudState == <<_clouds, builds, cloudsInScene, frames, cloudsRotation>>
\* what the constructor fixes, whether the widget still lives, and the
\* callbacks the user has registered
given == <<opts, planet, asked, tornDown, _onZoomCbfn, _onClickCbfn>>

vars == <<opts, planet, controls, pov, _globeready, readyPc, timers,
          _nonInteractionTimer, _prevLatLngAlt, _spinspeed, _surface, _cloudsshown,
          lastOp, hist, lastSet, sinceInteraction, resumeChecks,
          surfaceState, cloudState, asked, tornDown, _onZoomCbfn,
          _onClickCbfn>>

----------------------------------------------------------------------------
(* Bounds of the model *)

MaxElapsed == 3       \* sinceInteraction saturates here
MaxChecks == 2        \* resumeChecks saturates here
HistLen == 3          \* spinGlobe calls remembered in hist

----------------------------------------------------------------------------
(* Optional values *)

Undefined == {}
Some(x) == {x}
Val(s) == CHOOSE x \in s : TRUE
\* JavaScript truthiness of an optional number
Truthy(s) == s # Undefined /\ s # Some(0)

Abs(x) == IF x < 0 THEN -x ELSE x
Min(a, b) == IF a < b THEN a ELSE b

----------------------------------------------------------------------------
(* Numbers of the surface overlay                                           *)
(*                                                                         *)
(* Units: an opacity is an integer in steps of 1/120000, the width of the  *)
(* fade band in altitude steps, so that 1.0 is OpacityOne and dividing an  *)
(* altitude difference by opacity1alt - opacity0alt is the change of unit; *)
(* the near plane is in steps of 1e-5; minDistance is in steps of          *)
(* 2^-LevelUnit; far and maxDistance are in scene units.                   *)

opacity1alt == 200000      \* altitude 1
opacity0alt == 80000       \* altitude .4
OpacityOne == opacity1alt - opacity0alt
AltitudeEpsilon == 2       \* .00001
NearFine == 1              \* 1e-5
NearCoarse == 5000         \* 0.05
GlobeRadius == 100         \* g.getGlobeRadius()
LevelUnit == 17            \* the widget's default globeTileEngineMaxLevel

----------------------------------------------------------------------------
(* Inputs *)

IdleDelays == {0, 2}
AutoSpeeds == {0, 35}
CallSpeeds == {Some(0), Some(-20), Undefined}
Altitudes == {80000, 82000, 400000, 500000}
LatLngs == {<<0, 0>>, <<30, 0>>, <<0, 15>>}
\* every altitude straight above <<0, 0>>, and one altitude elsewhere
ViewSamples ==
  {[lat |-> 0, lng |-> 0, altitude |-> a] : a \in Altitudes}
    \cup {[lat |-> ll[1], lng |-> ll[2], altitude |-> 82000] : ll \in LatLngs}

\* tileEngineURL is TRUE when a URL is configured; the overlays are either
\* both wanted (the defaults) or both left out
OptsChoices ==
  {o \in [autoRotateSpeed : AutoSpeeds,
          autoSpinAfterIdleMs : IdleDelays,
          interactionSpinThreshold : {2000},
          onlySpinAboveAltitude : {80000},
          showClouds : BOOLEAN,
          tileEngineURL : BOOLEAN,
          dayMode : {"day"}] : o.showClouds = o.tileEngineURL}

PlanetChoices == {[nightImageURL |-> TRUE, cloudsURL |-> TRUE]}

ClickElements == {"Globe", "Point", "Arc", "Polygon", "Path", "Heatmap",
                  "Hex", "HexPolygon", "Tile", "Particle", "Label", "Object",
                  "CustomLayer"}

----------------------------------------------------------------------------
(* Host timers *)

IdleTimers == {t \in timers : t.kind = "idle"}
ReadyTimers == {t \in timers : t.kind = "ready"}
\* the handle setTimeout returns: a positive id no pending timer has
NewTimerId(ts) == CHOOSE i \in 1..(Cardinality(ts) + 1) :
                    \A t \in ts : t.id # i
SetTimeout(ts, kind, ms) ==
  ts \cup {[id |-> NewTimerId(ts), kind |-> kind, remaining |-> ms]}
ClearTimeout(ts, handle) == {t \in ts : t.id \notin handle}

----------------------------------------------------------------------------
(* g.spinGlobe *)

\* NewSpinSpeed resuming at the configured speed, whatever was set
NewSpinSpeed_DefaultOnResume(speed) ==
  IF speed = Undefined
    THEN Some(opts.autoRotateSpeed)
    ELSE IF Truthy(speed) THEN speed ELSE _spinspeed

\* NewSpinSpeed storing every given speed, zero too
NewSpinSpeed_StoresZero(speed) ==
  IF speed = Undefined
    THEN (IF Truthy(_spinspeed) THEN _spinspeed ELSE Some(opts.autoRotateSpeed))
    ELSE speed

\* NewSpinSpeed falling back to the built-in default speed 0.35
NewSpinSpeed_BuiltInDefault(speed) ==
  IF speed = Undefined
    THEN (IF Truthy(_spinspeed) THEN _spinspeed ELSE Some(35))
    ELSE IF Truthy(speed) THEN speed ELSE _spinspeed

NewSpinSpeed(speed) ==
  IF speed = Undefined
    THEN (IF Truthy(_spinspeed) THEN _spinspeed ELSE Some(opts.autoRotateSpeed))
    ELSE IF Truthy(speed) THEN speed ELSE _spinspeed

\* spinGlobe handing the controls the speed stored before the call
spinGlobe_StaleSpeed(speed) ==
  /\ _spinspeed' = NewSpinSpeed(speed)
  /\ controls' = [autoRotate |-> speed # Some(0),
                  autoRotateSpeed |-> _spinspeed]

spinGlobe(speed) ==
  /\ _spinspeed' = NewSpinSpeed(speed)
  /\ controls' = [autoRotate |-> speed # Some(0),
                  autoRotateSpeed |-> NewSpinSpeed(speed)]

\* the history of a step that calls spinGlobe(arg)
Remember(arg) ==
  LET all == Append(hist, arg)
  IN  /\ hist' = IF Len(all) > HistLen
                   THEN SubSeq(all, Len(all) - HistLen + 1, Len(all))
                   ELSE all
      /\ lastSet' = IF Truthy(arg) THEN arg ELSE lastSet

----------------------------------------------------------------------------
\* the state the constructor leaves, whatever the options
Constructed ==
  /\ controls = [autoRotate |-> FALSE, autoRotateSpeed |-> Some(200)]
  /\ pov = [lat |-> 0, lng |-> 0, altitude |-> 500000]
  /\ _globeready = FALSE
  /\ readyPc = "constructed"
  /\ timers = {}
  /\ _nonInteractionTimer = Undefined
  /\ _prevLatLngAlt = Undefined
  /\ _spinspeed = Undefined
  /\ _surface = FALSE
  /\ _cloudsshown = FALSE
  /\ lastOp = [op |-> "Init", calls |-> <<>>, interaction |-> FALSE,
               cleared |-> 0, shown |-> FALSE, event |-> <<>>,
               invoked |-> <<>>]
  /\ hist = <<>>
  /\ lastSet = Undefined
  /\ sinceInteraction = MaxElapsed
  /\ resumeChecks = 0
  /\ _solar = FALSE
  /\ surfaceOpacity = Undefined
  /\ sunPosition = Undefined
  /\ globeRotation = Undefined
  /\ _prevSurfaceOpacity = Undefined
  /\ camera = [near |-> NearCoarse, far |-> Undefined]
  /\ limits = [minDistance |-> Undefined, maxDistance |-> Undefined]
  /\ facing = Undefined
  /\ maxLevel = LevelUnit
  /\ surfaceInScene = FALSE
  /\ sunDate = Undefined
  /\ _clouds = Undefined
  /\ builds = {}
  /\ cloudsInScene = {}
  /\ frames = 0
  /\ cloudsRotation = 0
  /\ tornDown = FALSE
  /\ _onZoomCbfn = Undefined
  /\ _onClickCbfn = [el \in ClickElements |-> Undefined]
  /\ three = [loaded |-> FALSE, pending |-> 0, wraps |-> 0]

Init ==
  /\ opts \in OptsChoices
  /\ planet \in PlanetChoices
  /\ asked = opts.dayMode
  /\ Constructed

\* history of a step: the operation, the spinGlobe calls it made, whether it
\* invoked _onInteraction, how many pending timers it cancelled, the
\* clouds' visibility flag it found, the widget's event it handled and the
\* user callbacks it invoked
DidEvent(op, calls, interaction, cleared, event, invoked) ==
  lastOp' = [op |-> op, calls |-> calls, interaction |-> interaction,
             cleared |-> cleared, shown |-> _cloudsshown, event |-> event,
             invoked |-> invoked]

Did(op, calls, interaction, cleared) ==
  DidEvent(op, calls, interaction, cleared, <<>>, <<>>)

----------------------------------------------------------------------------
(* The surface overlay: opacity, camera near plane and tilt *)

Max(a, b) == IF a > b THEN a ELSE b

\* opacity without the lower clamp
opacity_NoFloor(altitude) == Min(OpacityOne, altitude - opacity0alt)

\* the opacity _changeSurfaceOpacity computes for an altitude
opacity(altitude) == Min(OpacityOne, Max(0, altitude - opacity0alt))

\* Math.cos at a whole number of quarter turns
Cos(quarters) ==
  CASE quarters % 4 = 0 -> 1
    [] quarters % 4 = 2 -> -1
    [] OTHER -> 0

\* _cosineHump without the test that cuts it off outside the hump
cosineHump_Periodic(x, center, width, height) ==
  (height * (Cos(((x - center) * 4) \div width) + 1)) \div 2

\* exact where x - center is a multiple of width / 4; the model's view
\* samples keep to such altitudes inside the hump
_cosineHump(x, center, width, height) ==
  LET halfWidth == width \div 2
      xMin == center - halfWidth
      xMax == center + halfWidth
  IN  IF x < xMin \/ x > xMax
        THEN 0
        ELSE (height * (Cos(((x - center) * 4) \div width) + 1)) \div 2

maxTiltY == 80
startTiltAlt == 0
endTiltAlt == 10000        \* altitude .05

\* the y _changeCameraAngle computes for an altitude
TiltY(alt) ==
  LET width == endTiltAlt - startTiltAlt
      center == startTiltAlt + width \div 2
  IN  _cosineHump(alt, center, width, maxTiltY)

\* _changeCameraAngle leaving the tilt alone outside the tilt band
changeCameraAngle_OnlyInsideBand(alt) ==
  facing' = IF facing # Undefined /\ alt >= startTiltAlt /\ alt <= endTiltAlt
              THEN Some(TiltY(alt))
              ELSE facing

_changeCameraAngle(alt) ==
  facing' = IF facing # Undefined THEN Some(TiltY(alt)) ELSE facing

_changeCameraNear(near) ==
  /\ camera' = [near |-> near, far |-> Some(GlobeRadius * 100)]
  /\ limits' = [minDistance |->
                  Some(GlobeRadius * (2^LevelUnit + 5 * 2^(LevelUnit - maxLevel))),
                maxDistance |-> Some(GlobeRadius * 100 - GlobeRadius)]

surfaceOutputs == <<surfaceOpacity, _prevSurfaceOpacity, camera, limits, facing>>

\* _changeSurfaceOpacity without its early return
changeSurfaceOpacity_NoGuard(altitude) ==
  /\ surfaceOpacity' = Some(opacity(altitude))
  /\ IF _prevSurfaceOpacity # Undefined /\ Val(_prevSurfaceOpacity) > 0
        /\ opacity(altitude) = 0
       THEN _changeCameraNear(NearFine)
       ELSE IF _prevSurfaceOpacity = Some(0) /\ opacity(altitude) > 0
         THEN _changeCameraNear(NearCoarse)
         ELSE UNCHANGED <<camera, limits>>
  /\ _prevSurfaceOpacity' = Some(opacity(altitude))
  /\ _changeCameraAngle(altitude)

_changeSurfaceOpacity(altitude) ==
  IF ~_surface \/ ~opts.tileEngineURL
    THEN UNCHANGED surfaceOutputs
    ELSE /\ surfaceOpacity' = Some(opacity(altitude))
         /\ IF _prevSurfaceOpacity # Undefined /\ Val(_prevSurfaceOpacity) > 0
               /\ opacity(altitude) = 0
              THEN _changeCameraNear(NearFine)
              ELSE IF _prevSurfaceOpacity = Some(0) /\ opacity(altitude) > 0
                THEN _changeCameraNear(NearCoarse)
                ELSE UNCHANGED <<camera, limits>>
         /\ _prevSurfaceOpacity' = Some(opacity(altitude))
         /\ _changeCameraAngle(altitude)

----------------------------------------------------------------------------
(* Day/night shading                                                       *)
(*                                                                         *)
(* Units: an instant is an integer in steps of 4 minutes since a UTC       *)
(* midnight, so a day is 360 steps and a step is one degree of longitude.  *)

SunPeriod == 60000         \* 60 * 1000 ms
DaySteps == 360            \* 864e5 ms

\* what new Date() may return
Instants == {0, 90, 450}

\* the solar-calculator dependency: fixed functions of the instant, here
\* the day number, and a small table each for the equation of time (in
\* minutes) and the declination (in degrees)
century(dt) == dt \div DaySteps
equationOfTime(t) == IF t % 2 = 0 THEN -4 ELSE 8
declination(t) == IF t % 2 = 0 THEN 23 ELSE -10

_sunPosAt(dt) ==
  LET day == dt - (dt % DaySteps)
      t == century(dt)
      lng == ((day - dt) * 360) \div DaySteps - 180
  IN  <<lng - equationOfTime(t) \div 4, declination(t)>>

SunTimers == {t \in timers : t.kind = "sun"}

_updateSunRotation(latLngAlt) ==
  globeRotation' = IF _solar /\ _surface
                     THEN Some(<<latLngAlt.lng, latLngAlt.lat>>)
                     ELSE globeRotation

----------------------------------------------------------------------------
(* The clouds overlay *)

MaxBuilds == 2        \* cloud builds in flight at once
MaxRotation == 4      \* rotation steps the model follows

NewBuildId(bs) == CHOOSE i \in 1..(Cardinality(bs) + 1) :
                    \A b \in bs : b.id # i

\* _addClouds, whose rotateClouds asks for another frame whatever the flag
addClouds_AlwaysAgain(shown, y, mesh) ==
  /\ cloudsInScene' = cloudsInScene \cup {mesh}
  /\ cloudsRotation' = y + 1
  /\ frames' = frames + 1

\* shown is _cloudsshown at the time of the call and y the rotation of the
\* mesh in _clouds; rotateClouds runs once at once and asks for the next
\* frame only while the clouds are shown
_addClouds(shown, y, mesh) ==
  /\ cloudsInScene' = cloudsInScene \cup {mesh}
  /\ cloudsRotation' = y + 1
  /\ frames' = IF shown THEN frames + 1 ELSE frames

\* _loadThreeJS up to its await: a call that finds Globe.THREE unset goes on
\* to import the library
_loadThreeJS ==
  three' = IF three.loaded THEN three
                           ELSE [three EXCEPT !.pending = @ + 1]

\* g.showClouds(show) starts a build that waiter awaits
StartsBuild(show) ==
  show /\ ~_cloudsshown /\ planet.cloudsURL /\ _clouds = Undefined

\* g.showClouds, hiding by disposing of the mesh
showClouds_DisposeOnHide(show, waiter) ==
  IF show = _cloudsshown \/ ~planet.cloudsURL
    THEN UNCHANGED <<_cloudsshown, cloudState, three>>
    ELSE /\ _cloudsshown' = show
         /\ IF show
              THEN IF _clouds = Undefined
                THEN /\ builds' = builds \cup {[id |-> NewBuildId(builds),
                                               waiter |-> waiter]}
                     /\ _loadThreeJS
                     /\ UNCHANGED <<_clouds, cloudsInScene, frames,
                                    cloudsRotation>>
                ELSE /\ _addClouds(TRUE, cloudsRotation, Val(_clouds))
                     /\ UNCHANGED <<_clouds, builds, three>>
              ELSE /\ cloudsInScene' = cloudsInScene \ _clouds
                   /\ _clouds' = Undefined
                   /\ UNCHANGED <<builds, frames, cloudsRotation, three>>

\* g.showClouds without the comparison with the current flag
showClouds_NoSameCheck(show, waiter) ==
  IF ~planet.cloudsURL
    THEN UNCHANGED <<_cloudsshown, cloudState, three>>
    ELSE /\ _cloudsshown' = show
         /\ IF show
              THEN IF _clouds = Undefined
                THEN /\ builds' = builds \cup {[id |-> NewBuildId(builds),
                                               waiter |-> waiter]}
                     /\ _loadThreeJS
                     /\ UNCHANGED <<_clouds, cloudsInScene, frames,
                                    cloudsRotation>>
                ELSE /\ _addClouds(TRUE, cloudsRotation, Val(_clouds))
                     /\ UNCHANGED <<_clouds, builds, three>>
              ELSE /\ cloudsInScene' = cloudsInScene \ _clouds
                   /\ UNCHANGED <<_clouds, builds, frames, cloudsRotation,
                                  three>>

\* g.showClouds up to its await
showClouds(show, waiter) ==
  IF show = _cloudsshown \/ ~planet.cloudsURL
    THEN UNCHANGED <<_cloudsshown, cloudState, three>>
    ELSE /\ _cloudsshown' = show
         /\ IF show
              THEN IF _clouds = Undefined
                THEN /\ builds' = builds \cup {[id |-> NewBuildId(builds),
                                               waiter |-> waiter]}
                     /\ _loadThreeJS
                     /\ UNCHANGED <<_clouds, cloudsInScene, frames,
                                    cloudsRotation>>
                ELSE /\ _addClouds(TRUE, cloudsRotation, Val(_clouds))
                     /\ UNCHANGED <<_clouds, builds, three>>
              ELSE /\ cloudsInScene' = cloudsInScene \ _clouds
                   /\ UNCHANGED <<_clouds, builds, frames, cloudsRotation,
                                  three>>

----------------------------------------------------------------------------
(* The onGlobeReady handler, an async function: one action per stretch      *)
(* between two awaits                                                      *)

NeedsSurface == opts.tileEngineURL \/ opts.dayMode = "daynight"

\* _globeReadyCbfn(); setTimeout(() => _globeready = true, 1)
\* ts: the pending timers when this stretch of the handler starts
FinishReady(ts) ==
  /\ readyPc' = "tickPending"
  /\ timers' = SetTimeout(ts, "ready", 1)

\* from "if (opts.showClouds) await g.showClouds(true)" on
AfterSurface(ts) ==
  IF opts.showClouds
    THEN /\ showClouds(TRUE, "ready")
         /\ IF StartsBuild(TRUE)
              THEN /\ readyPc' = "awaitClouds"
                   /\ timers' = ts
              ELSE FinishReady(ts)
    ELSE /\ UNCHANGED <<_cloudsshown, cloudState, three>>
         /\ FinishReady(ts)

ReadyStart(ll) ==
  /\ readyPc = "constructed"
  /\ pov' = [pov EXCEPT !.lat = ll[1], !.lng = ll[2]]
  /\ spinGlobe(Some(opts.autoRotateSpeed))
  /\ Remember(Some(opts.autoRotateSpeed))
  /\ IF NeedsSurface
       THEN /\ readyPc' = "awaitSurface"
            /\ _loadThreeJS
            /\ UNCHANGED <<timers, _cloudsshown,
                 cloudState>>
       ELSE AfterSurface(timers)
  /\ Did("ReadyStart", <<Some(opts.autoRotateSpeed)>>, FALSE, 0)
  /\ UNCHANGED <<given, _globeready, _nonInteractionTimer,
                 _prevLatLngAlt, _surface, sinceInteraction, resumeChecks,
                 surfaceRest>>

\* dt is the instant new Date() returns; solar and surface are _solar and
\* _surface at the time of the call
_moveSunToPositionAtDate(dt, solar, surface) ==
  IF solar /\ surface
    THEN /\ sunPosition' = Some(_sunPosAt(dt))
         /\ sunDate' = Some(dt)
    ELSE UNCHANGED <<sunPosition, sunDate>>

\* _startSunLifeLoop that only starts the interval: the uniform keeps the
\* zero vector it was created with
startSunLifeLoop_TimerOnly(dt) ==
  /\ sunPosition' = Some(<<0, 0>>)
  /\ sunDate' = Undefined

\* what _startSunLifeLoop does to the shader, within _showSurface
_startSunLifeLoop(dt) == _moveSunToPositionAtDate(dt, _solar', _surface')

\* what _startSunLifeLoop does to the pending timers ts: its setInterval
SunLoopTimers(ts) == SetTimeout(ts, "sun", SunPeriod)

\* the last texture of _showSurface has loaded: the rest of _showSurface,
\* then the ready handler up to its next await
SurfaceLoaded ==
  /\ readyPc = "awaitSurface"
  /\ three.pending = 0
  /\ _solar' = (opts.dayMode = "daynight")
  /\ _surface' = TRUE
  /\ surfaceOpacity' = Some(OpacityOne)
  /\ IF opts.dayMode = "daynight"
       THEN /\ globeRotation' = Some(<<0, 0>>)
            /\ \E dt \in Instants : _startSunLifeLoop(dt)
            /\ AfterSurface(SunLoopTimers(timers))
       ELSE /\ UNCHANGED <<sunPosition, globeRotation, sunDate>>
            /\ AfterSurface(timers)
  /\ surfaceInScene' = TRUE
  /\ Did("SurfaceLoaded", <<>>, FALSE, 0)
  /\ UNCHANGED <<given, controls, pov, _globeready,
                 _nonInteractionTimer, _prevLatLngAlt, _spinspeed, hist, lastSet,
                 sinceInteraction, resumeChecks, _prevSurfaceOpacity, camera,
                 limits, facing, maxLevel>>

\* a texture load of _showSurface rejects: the handler ends there
SurfaceFailed ==
  /\ readyPc = "awaitSurface"
  /\ three.pending = 0
  /\ readyPc' = "failed"
  /\ Did("SurfaceFailed", <<>>, FALSE, 0)
  /\ UNCHANGED <<given, controls, pov, _globeready, timers,
                 _nonInteractionTimer, _prevLatLngAlt, _spinspeed, _surface,
                 _cloudsshown, hist, lastSet, sinceInteraction, resumeChecks,
                 surfaceState, cloudState>>

\* a build that ends while the clouds are hidden is dropped
CloudsBuilt_OnlyIfShown(b) ==
  /\ three.pending = 0
  /\ builds' = builds \ {b}
  /\ IF _cloudsshown
       THEN _clouds' = Some(b.id) /\ _addClouds(TRUE, 0, b.id)
       ELSE UNCHANGED <<_clouds, cloudsInScene, frames, cloudsRotation>>

\* the texture of the build b has loaded: the mesh replaces the one in
\* _clouds and _addClouds runs
CloudsBuilt(b) ==
  /\ three.pending = 0
  /\ _clouds' = Some(b.id)
  /\ builds' = builds \ {b}
  /\ _addClouds(_cloudsshown, 0, b.id)

\* the import of the library resolves, and every _loadThreeJS call that
\* awaits it goes on, one after the other, before anything else runs: each
\* sets Globe.THREE, makes controls.facing a copy of controls.target and puts
\* a wrapper round controls.update
ThreeImported ==
  /\ three.pending > 0
  /\ three' = [loaded |-> TRUE, pending |-> 0,
               wraps |-> three.wraps + three.pending]
  /\ facing' = Some(0)
  /\ Did("ThreeImported", <<>>, FALSE, 0)
  /\ UNCHANGED <<given, controls, pov, _globeready, readyPc, timers,
                 _nonInteractionTimer, _prevLatLngAlt, _spinspeed, _surface,
                 _cloudsshown, hist, lastSet, sinceInteraction, resumeChecks,
                 _solar, surfaceOpacity, sunPosition, globeRotation,
                 _prevSurfaceOpacity, camera, limits, maxLevel,
                 surfaceInScene, sunDate, cloudState>>

\* the build the ready handler awaits ends, and the handler goes on
CloudsLoaded ==
  /\ readyPc = "awaitClouds"
  /\ \E b \in builds : b.waiter = "ready" /\ CloudsBuilt(b)
  /\ FinishReady(timers)
  /\ Did("CloudsLoaded", <<>>, FALSE, 0)
  /\ UNCHANGED <<given, controls, pov, _globeready,
                 _nonInteractionTimer, _prevLatLngAlt, _spinspeed, _surface,
                 _cloudsshown, hist, lastSet, sinceInteraction, resumeChecks,
                 surfaceState>>

ReadyTimerFire ==
  \E t \in ReadyTimers :
    /\ t.remaining = 0
    /\ timers' = timers \ {t}
    /\ _globeready' = TRUE
    /\ readyPc' = "done"
    /\ Did("ReadyTimerFire", <<>>, FALSE, 0)
    /\ UNCHANGED <<given, controls, pov, _nonInteractionTimer,
                   _prevLatLngAlt, _spinspeed, _surface, _cloudsshown, hist, lastSet,
                   sinceInteraction, resumeChecks,
                 surfaceState, cloudState>>

----------------------------------------------------------------------------
(* Interactions *)

spinState == <<controls, _spinspeed>>
idleState == <<timers, _nonInteractionTimer>>
idleHistory == <<hist, lastSet, sinceInteraction, resumeChecks>>

\* the spinGlobe calls _onInteraction makes
InteractionCalls ==
  IF _globeready /\ opts.autoSpinAfterIdleMs > 0 THEN <<Some(0)>> ELSE <<>>

\* the pending timers _onInteraction cancels
InteractionCleared ==
  IF _globeready /\ opts.autoSpinAfterIdleMs > 0
    THEN Cardinality(timers \ ClearTimeout(timers, _nonInteractionTimer))
    ELSE 0

\* _onInteraction without the _globeready test
onInteraction_NoReadyCheck ==
  IF opts.autoSpinAfterIdleMs > 0
    THEN LET kept == ClearTimeout(timers, _nonInteractionTimer)
         IN  /\ spinGlobe(Some(0))
             /\ timers' = SetTimeout(kept, "idle", opts.autoSpinAfterIdleMs)
             /\ _nonInteractionTimer' = Some(NewTimerId(kept))
             /\ Remember(Some(0))
             /\ sinceInteraction' = 0
             /\ resumeChecks' = 0
    ELSE UNCHANGED <<spinState, idleState, idleHistory>>

\* _onInteraction without the autoSpinAfterIdleMs > 0 test
onInteraction_AlwaysStops ==
  IF ~_globeready
    THEN UNCHANGED <<spinState, idleState, idleHistory>>
    ELSE LET kept == ClearTimeout(timers, _nonInteractionTimer)
         IN  /\ spinGlobe(Some(0))
             /\ timers' = SetTimeout(kept, "idle", opts.autoSpinAfterIdleMs)
             /\ _nonInteractionTimer' = Some(NewTimerId(kept))
             /\ Remember(Some(0))
             /\ sinceInteraction' = 0
             /\ resumeChecks' = 0

\* _onInteraction without its spinGlobe(0)
onInteraction_NoStop ==
  IF ~_globeready
    THEN UNCHANGED <<spinState, idleState, idleHistory>>
    ELSE IF opts.autoSpinAfterIdleMs > 0
      THEN LET kept == ClearTimeout(timers, _nonInteractionTimer)
           IN  /\ timers' = SetTimeout(kept, "idle", opts.autoSpinAfterIdleMs)
               /\ _nonInteractionTimer' = Some(NewTimerId(kept))
               /\ sinceInteraction' = 0
               /\ resumeChecks' = 0
               /\ UNCHANGED <<spinState, hist, lastSet>>
      ELSE UNCHANGED <<spinState, idleState, idleHistory>>

\* _onInteraction without its clearTimeout
onInteraction_NoClear ==
  IF ~_globeready
    THEN UNCHANGED <<spinState, idleState, idleHistory>>
    ELSE IF opts.autoSpinAfterIdleMs > 0
      THEN /\ spinGlobe(Some(0))
           /\ timers' = SetTimeout(timers, "idle", opts.autoSpinAfterIdleMs)
           /\ _nonInteractionTimer' = Some(NewTimerId(timers))
           /\ Remember(Some(0))
           /\ sinceInteraction' = 0
           /\ resumeChecks' = 0
      ELSE UNCHANGED <<spinState, idleState, idleHistory>>

\* _onInteraction that leaves a pending timer running instead of restarting it
onInteraction_NoRestart ==
  IF ~_globeready
    THEN UNCHANGED <<spinState, idleState, idleHistory>>
    ELSE IF opts.autoSpinAfterIdleMs > 0
      THEN /\ spinGlobe(Some(0))
           /\ IF _nonInteractionTimer # Undefined
                THEN UNCHANGED idleState
                ELSE /\ timers' = SetTimeout(timers, "idle",
                                             opts.autoSpinAfterIdleMs)
                     /\ _nonInteractionTimer' = Some(NewTimerId(timers))
           /\ Remember(Some(0))
           /\ sinceInteraction' = 0
           /\ resumeChecks' = 0
      ELSE UNCHANGED <<spinState, idleState, idleHistory>>

_onInteraction ==
  IF ~_globeready
    THEN UNCHANGED <<spinState, idleState, idleHistory>>
    ELSE IF opts.autoSpinAfterIdleMs > 0
      THEN LET kept == ClearTimeout(timers, _nonInteractionTimer)
           IN  /\ spinGlobe(Some(0))
               /\ timers' = SetTimeout(kept, "idle", opts.autoSpinAfterIdleMs)
               /\ _nonInteractionTimer' = Some(NewTimerId(kept))
               /\ Remember(Some(0))
               /\ sinceInteraction' = 0
               /\ resumeChecks' = 0
      ELSE UNCHANGED <<spinState, idleState, idleHistory>>

\* ResumeWanted with >= for >
ResumeWanted_AtOrAbove == pov.altitude >= opts.onlySpinAboveAltitude

\* the test of the callback _onInteraction hands to setTimeout
ResumeWanted == pov.altitude > opts.onlySpinAboveAltitude

\* the idle timer as an interval: it is set again when it fires
IdleTimerFire_Repeating ==
  \E t \in IdleTimers :
    /\ t.remaining = 0
    /\ timers' = (timers \ {t})
                   \cup {[t EXCEPT !.remaining = opts.autoSpinAfterIdleMs]}
    /\ IF ResumeWanted
         THEN /\ spinGlobe(Undefined)
              /\ Remember(Undefined)
              /\ Did("IdleTimerFire", <<Undefined>>, FALSE, 0)
         ELSE /\ UNCHANGED <<spinState, hist, lastSet>>
              /\ Did("IdleTimerFire", <<>>, FALSE, 0)
    /\ resumeChecks' = Min(resumeChecks + 1, MaxChecks)
    /\ UNCHANGED <<given, pov, _globeready, readyPc, _prevLatLngAlt,
                   _nonInteractionTimer, _surface, _cloudsshown,
                   sinceInteraction, surfaceState, cloudState>>

IdleTimerFire ==
  \E t \in IdleTimers :
    /\ t.remaining = 0
    /\ timers' = timers \ {t}
    /\ _nonInteractionTimer' = Undefined
    /\ IF ResumeWanted
         THEN /\ spinGlobe(Undefined)
              /\ Remember(Undefined)
              /\ Did("IdleTimerFire", <<Undefined>>, FALSE, 0)
         ELSE /\ UNCHANGED <<spinState, hist, lastSet>>
              /\ Did("IdleTimerFire", <<>>, FALSE, 0)
    /\ resumeChecks' = Min(resumeChecks + 1, MaxChecks)
    /\ UNCHANGED <<given, pov, _globeready, readyPc, _prevLatLngAlt,
                   _surface, _cloudsshown, sinceInteraction,
                 surfaceState, cloudState>>

\* history: the widget's event, kept while a user callback is registered
Observed(event) ==
  IF _onZoomCbfn = Undefined /\ \A el \in ClickElements :
                                  _onClickCbfn[el] = Undefined
    THEN <<>>
    ELSE event

\* what a callback called at the end of a handler finds
Seen == [prev |-> _prevLatLngAlt', controls |-> controls',
         timer |-> _nonInteractionTimer']

\* if (_onZoomCbfn) _onZoomCbfn()
zoomCallbacks ==
  IF _onZoomCbfn = Undefined
    THEN <<>>
    ELSE <<[cb |-> Val(_onZoomCbfn), args |-> <<>>, seen |-> Seen]>>

\* the click callback called before the controller handles the click
clickCallbacks_CalledFirst(el, args) ==
  IF _onClickCbfn[el] = Undefined
    THEN <<>>
    ELSE <<[cb |-> Val(_onClickCbfn[el]), args |-> args,
            seen |-> [prev |-> _prevLatLngAlt, controls |-> controls,
                      timer |-> _nonInteractionTimer]]>>

\* if (_onClickCbfn[el]) _onClickCbfn[el](...args)
clickCallbacks(el, args) ==
  IF _onClickCbfn[el] = Undefined
    THEN <<>>
    ELSE <<[cb |-> Val(_onClickCbfn[el]), args |-> args, seen |-> Seen]>>

\* IsInteraction with >= for >
IsInteraction_AtLeast(latLngAlt) ==
  /\ _prevLatLngAlt # Undefined
  /\ Abs(Val(_prevLatLngAlt).altitude - latLngAlt.altitude)
       >= opts.interactionSpinThreshold

\* the test of the onZoom handler: only altitude changes count
IsInteraction(latLngAlt) ==
  /\ _prevLatLngAlt # Undefined
  /\ Abs(Val(_prevLatLngAlt).altitude - latLngAlt.altitude)
       > opts.interactionSpinThreshold

\* the onZoom handler keeping the previous sample it had until the
\* controller is ready
ViewSample_KeepsPrevUntilReady(latLngAlt) ==
  /\ pov' = latLngAlt
  /\ IF IsInteraction(latLngAlt)
       THEN _onInteraction
       ELSE UNCHANGED <<spinState, idleState, idleHistory>>
  /\ IF _prevLatLngAlt # Undefined
        /\ Abs(Val(_prevLatLngAlt).altitude - latLngAlt.altitude)
             > AltitudeEpsilon
       THEN _changeSurfaceOpacity(latLngAlt.altitude)
       ELSE UNCHANGED surfaceOutputs
  /\ IF \/ _prevLatLngAlt = Undefined
        \/ Val(_prevLatLngAlt).lat # latLngAlt.lat
        \/ Val(_prevLatLngAlt).lng # latLngAlt.lng
       THEN _updateSunRotation(latLngAlt)
       ELSE UNCHANGED globeRotation
  /\ _prevLatLngAlt' = IF _globeready THEN Some(latLngAlt)
                                      ELSE _prevLatLngAlt
  /\ IF IsInteraction(latLngAlt)
       THEN DidEvent("ViewSample", InteractionCalls, TRUE,
                     InteractionCleared, Observed(<<latLngAlt>>),
                     zoomCallbacks)
       ELSE DidEvent("ViewSample", <<>>, FALSE, 0, Observed(<<latLngAlt>>),
                     zoomCallbacks)
  /\ UNCHANGED <<given, _globeready, readyPc, _surface, _cloudsshown,
                 _solar, sunPosition, maxLevel, surfaceInScene, sunDate,
                 cloudState, three>>

\* the onZoom handler computing the sun's position anew on every sample
ViewSample_MovesSun(latLngAlt) ==
  /\ pov' = latLngAlt
  /\ IF IsInteraction(latLngAlt)
       THEN _onInteraction
       ELSE UNCHANGED <<spinState, idleState, idleHistory>>
  /\ IF _prevLatLngAlt # Undefined
        /\ Abs(Val(_prevLatLngAlt).altitude - latLngAlt.altitude)
             > AltitudeEpsilon
       THEN _changeSurfaceOpacity(latLngAlt.altitude)
       ELSE UNCHANGED surfaceOutputs
  /\ IF \/ _prevLatLngAlt = Undefined
        \/ Val(_prevLatLngAlt).lat # latLngAlt.lat
        \/ Val(_prevLatLngAlt).lng # latLngAlt.lng
       THEN _updateSunRotation(latLngAlt)
       ELSE UNCHANGED globeRotation
  /\ _prevLatLngAlt' = Some(latLngAlt)
  /\ IF IsInteraction(latLngAlt)
       THEN DidEvent("ViewSample", InteractionCalls, TRUE,
                     InteractionCleared, Observed(<<latLngAlt>>),
                     zoomCallbacks)
       ELSE DidEvent("ViewSample", <<>>, FALSE, 0, Observed(<<latLngAlt>>),
                     zoomCallbacks)
  /\ \E dt \in Instants : _moveSunToPositionAtDate(dt, _solar, _surface)
  /\ UNCHANGED <<given, _globeready, readyPc, _surface, _cloudsshown,
                 _solar, maxLevel, surfaceInScene, cloudState, three>>

\* the camera moves and the onZoom handler runs with the new point of view
ViewSample(latLngAlt) ==
  /\ pov' = latLngAlt
  /\ IF IsInteraction(latLngAlt)
       THEN _onInteraction
       ELSE UNCHANGED <<spinState, idleState, idleHistory>>
  /\ IF _prevLatLngAlt # Undefined
        /\ Abs(Val(_prevLatLngAlt).altitude - latLngAlt.altitude)
             > AltitudeEpsilon
       THEN _changeSurfaceOpacity(latLngAlt.altitude)
       ELSE UNCHANGED surfaceOutputs
  /\ IF \/ _prevLatLngAlt = Undefined
        \/ Val(_prevLatLngAlt).lat # latLngAlt.lat
        \/ Val(_prevLatLngAlt).lng # latLngAlt.lng
       THEN _updateSunRotation(latLngAlt)
       ELSE UNCHANGED globeRotation
  /\ _prevLatLngAlt' = Some(latLngAlt)
  /\ IF IsInteraction(latLngAlt)
       THEN DidEvent("ViewSample", InteractionCalls, TRUE,
                     InteractionCleared, Observed(<<latLngAlt>>),
                     zoomCallbacks)
       ELSE DidEvent("ViewSample", <<>>, FALSE, 0, Observed(<<latLngAlt>>),
                     zoomCallbacks)
  /\ UNCHANGED <<given, _globeready, readyPc, _surface, _cloudsshown,
                 _solar, sunPosition, maxLevel, surfaceInScene, sunDate,
                 cloudState, three>>

\* the arguments the widget hands to a click handler
ClickArgs == {<<"point">>, <<"point", "event">>}

Click(el) ==
  /\ el \in ClickElements
  /\ _onInteraction
  /\ UNCHANGED <<given, pov, _globeready, readyPc, _prevLatLngAlt,
                 _surface, _cloudsshown,
                 surfaceState, cloudState>>
  /\ \E args \in ClickArgs :
       DidEvent("Click", InteractionCalls, TRUE, InteractionCleared,
                Observed(<<el, args>>), clickCallbacks(el, args))

\* the caller's g.onZoom(cbfn): the override only stores the callback
OnZoom(cbfn) ==
  /\ _onZoomCbfn' = cbfn
  /\ Did("OnZoom", <<>>, FALSE, 0)
  /\ UNCHANGED <<opts, planet, asked, tornDown, _onClickCbfn, controls, pov,
                 _globeready, readyPc, idleState, _prevLatLngAlt, _spinspeed,
                 _surface, _cloudsshown, idleHistory, surfaceState,
                 cloudState>>

\* the caller's g.on<el>Click(cbfn): the override only stores the callback
OnClick(el, cbfn) ==
  /\ el \in ClickElements
  /\ _onClickCbfn' = [_onClickCbfn EXCEPT ![el] = cbfn]
  /\ Did("OnClick", <<>>, FALSE, 0)
  /\ UNCHANGED <<opts, planet, asked, tornDown, _onZoomCbfn, controls, pov,
                 _globeready, readyPc, idleState, _prevLatLngAlt, _spinspeed,
                 _surface, _cloudsshown, idleHistory, surfaceState,
                 cloudState>>

\* g.spinGlobe(speed) cancelling the idle timer
SpinGlobeCall_CancelsTimer(speed) ==
  /\ spinGlobe(speed)
  /\ Remember(speed)
  /\ timers' = ClearTimeout(timers, _nonInteractionTimer)
  /\ _nonInteractionTimer' = Undefined
  /\ Did("SpinGlobeCall", <<speed>>, FALSE, 0)
  /\ UNCHANGED <<given, pov, _globeready, readyPc,
                 _prevLatLngAlt, _surface, _cloudsshown, sinceInteraction,
                 resumeChecks, surfaceState, cloudState>>

\* the caller's g.spinGlobe(speed)
SpinGlobeCall(speed) ==
  /\ spinGlobe(speed)
  /\ Remember(speed)
  /\ Did("SpinGlobeCall", <<speed>>, FALSE, 0)
  /\ UNCHANGED <<given, pov, _globeready, readyPc, idleState,
                 _prevLatLngAlt, _surface, _cloudsshown, sinceInteraction,
                 resumeChecks,
                 surfaceState, cloudState>>

\* one millisecond passes
Tick ==
  /\ timers' = {[t EXCEPT !.remaining = IF @ > 0 THEN @ - 1 ELSE 0] :
                  t \in timers}
  /\ sinceInteraction' = Min(sinceInteraction + 1, MaxElapsed)
  /\ Did("Tick", <<>>, FALSE, 0)
  /\ UNCHANGED <<given, controls, pov, _globeready, readyPc,
                 _nonInteractionTimer, _prevLatLngAlt, _spinspeed, _surface,
                 _cloudsshown, hist, lastSet, resumeChecks,
                 surfaceState, cloudState>>

\* ms milliseconds pass
Elapse(ms) ==
  /\ timers' = {[t EXCEPT !.remaining = IF @ > ms THEN @ - ms ELSE 0] :
                  t \in timers}
  /\ sinceInteraction' = Min(sinceInteraction + ms, MaxElapsed)
  /\ Did("Elapse", <<>>, FALSE, 0)
  /\ UNCHANGED <<given, controls, pov, _globeready, readyPc,
                 _nonInteractionTimer, _prevLatLngAlt, _spinspeed, _surface,
                 _cloudsshown, hist, lastSet, resumeChecks,
                 surfaceState, cloudState>>

\* the interval of _startSunLifeLoop comes round, at the instant dt
SunTimerFire(dt) ==
  \E t \in SunTimers :
    /\ t.remaining = 0
    /\ timers' = (timers \ {t}) \cup {[t EXCEPT !.remaining = SunPeriod]}
    /\ _moveSunToPositionAtDate(dt, _solar, _surface)
    /\ Did("SunTimerFire", <<>>, FALSE, 0)
    /\ UNCHANGED <<given, controls, pov, _globeready, readyPc,
                   _nonInteractionTimer, _prevLatLngAlt, _spinspeed, _surface,
                   _cloudsshown, hist, lastSet, sinceInteraction, resumeChecks,
                   _solar, surfaceOpacity, globeRotation, _prevSurfaceOpacity,
                   camera, limits, facing, maxLevel, surfaceInScene,
                   cloudState, three>>

\* the caller's g.globeTileEngineMaxLevel(level), a setting of the widget
SetMaxLevel(level) ==
  /\ level # maxLevel
  /\ maxLevel' = level
  /\ Did("SetMaxLevel", <<>>, FALSE, 0)
  /\ UNCHANGED <<given, controls, pov, _globeready, readyPc, timers,
                 _nonInteractionTimer, _prevLatLngAlt, _spinspeed, _surface,
                 _cloudsshown, hist, lastSet, sinceInteraction, resumeChecks,
                 _solar, surfaceOpacity, sunPosition, globeRotation,
                 _prevSurfaceOpacity, camera, limits, facing, surfaceInScene,
                 sunDate, cloudState, three>>

spinAndReady == <<opts, planet, controls, pov, _globeready, readyPc, timers,
                  _nonInteractionTimer, _prevLatLngAlt, _spinspeed, _surface,
                  hist, lastSet, sinceInteraction, resumeChecks, asked,
                  tornDown, _onZoomCbfn, _onClickCbfn>>

\* the caller's g.showClouds(show); a build it starts is awaited by the
\* caller, if by anyone
ShowCloudsCall(show) ==
  /\ StartsBuild(show) => Cardinality(builds) < MaxBuilds
  /\ cloudsRotation < MaxRotation
  /\ showClouds(show, "caller")
  /\ Did(IF show THEN "showClouds(true)" ELSE "showClouds(false)", <<>>,
         FALSE, 0)
  /\ UNCHANGED <<spinAndReady, surfaceRest>>

\* the texture of a build the caller started has loaded
CloudBuildDone ==
  /\ \E b \in builds : b.waiter = "caller" /\ CloudsBuilt(b)
  /\ Did("CloudBuildDone", <<>>, FALSE, 0)
  /\ UNCHANGED <<spinAndReady, _cloudsshown, surfaceState>>

\* the texture of a build fails to load: its callback never runs and its
\* promise never settles, so whoever awaits it waits for ever
CloudBuildFailed ==
  /\ three.pending = 0
  /\ \E b \in builds : builds' = builds \ {b}
  /\ Did("CloudBuildFailed", <<>>, FALSE, 0)
  /\ UNCHANGED <<spinAndReady, _cloudsshown, surfaceState, _clouds,
                 cloudsInScene, frames, cloudsRotation>>

\* an animation frame: every rotateClouds callback asked for runs once
Frame ==
  /\ frames > 0
  /\ cloudsRotation < MaxRotation
  /\ cloudsRotation' = cloudsRotation + frames
  /\ frames' = IF _cloudsshown THEN frames ELSE 0
  /\ Did("Frame", <<>>, FALSE, 0)
  /\ UNCHANGED <<spinAndReady, _cloudsshown, surfaceState, _clouds, builds,
                 cloudsInScene>>

\* the host destroys the widget.  g is the globe.gl instance the constructor
\* made; the controller adds nothing to its destructor and keeps no handle
\* of the sun's interval, so its timers stay as they are
Teardown ==
  /\ ~tornDown
  /\ tornDown' = TRUE
  /\ Did("Teardown", <<>>, FALSE, 0)
  /\ UNCHANGED <<opts, planet, asked, controls, pov, _globeready, readyPc,
                 timers, _nonInteractionTimer, _prevLatLngAlt, _spinspeed,
                 _surface, _cloudsshown, idleHistory, surfaceState,
                 cloudState, _onZoomCbfn, _onClickCbfn>>

----------------------------------------------------------------------------
Next ==
  \/ \E ll \in LatLngs : ReadyStart(ll)
  \/ ThreeImported
  \/ SurfaceLoaded
  \/ SurfaceFailed
  \/ CloudsLoaded
  \/ ReadyTimerFire
  \/ \E s \in ViewSamples : ViewSample(s)
  \/ \E el \in ClickElements : Click(el)
  \/ \E speed \in CallSpeeds : SpinGlobeCall(speed)
  \/ IdleTimerFire
  \/ Tick

Spec == Init /\ [][Next]_vars

----------------------------------------------------------------------------
(* The surface overlay and the day/night shading on their own: the idle    *)
(* resume is switched off, and clouds are asked for of a planet that has   *)
(* no clouds image                                                         *)

OverlayAltitudes == {2500, 5000, 80000, 80002, 140000, 500000}
OverlaySamples ==
  {[lat |-> 0, lng |-> 0, altitude |-> a] : a \in OverlayAltitudes}
    \cup {[lat |-> 30, lng |-> 15, altitude |-> 140000]}
MaxLevels == {14, LevelUnit}

\* the constructor, keeping the dayMode asked for whatever the planet has
DayModeFor_AsAsked(requested, p) == requested

\* the constructor falls back to dayMode 'day' without a night image
DayModeFor(requested, p) == IF p.nightImageURL THEN requested ELSE "day"

OverlayOpts ==
  [autoRotateSpeed : {35},
   autoSpinAfterIdleMs : {0},
   interactionSpinThreshold : {2000},
   onlySpinAboveAltitude : {80000},
   showClouds : {TRUE},
   tileEngineURL : BOOLEAN,
   dayMode : {"day", "night", "daynight"}]

OverlayPlanets == [nightImageURL : BOOLEAN, cloudsURL : {FALSE}]

OverlayInit ==
  /\ planet \in OverlayPlanets
  /\ \E o \in OverlayOpts :
       /\ asked = o.dayMode
       /\ opts = [o EXCEPT !.dayMode = DayModeFor(o.dayMode, planet)]
  /\ Constructed

OverlayNext ==
  \/ ReadyStart(<<0, 0>>)
  \/ ThreeImported
  \/ SurfaceLoaded
  \/ SurfaceFailed
  \/ ReadyTimerFire
  \/ \E s \in OverlaySamples : ViewSample(s)
  \/ \E dt \in Instants : SunTimerFire(dt)
  \/ Elapse(SunPeriod)
  \/ \E level \in MaxLevels : SetMaxLevel(level)
  \/ \E show \in BOOLEAN : ShowCloudsCall(show)
  \/ Teardown

OverlaySpec == OverlayInit /\ [][OverlayNext]_vars

----------------------------------------------------------------------------
(* The clouds overlay on its own: no surface is built *)

CloudOpts ==
  [autoRotateSpeed : {35},
   autoSpinAfterIdleMs : {0},
   interactionSpinThreshold : {2000},
   onlySpinAboveAltitude : {80000},
   showClouds : BOOLEAN,
   tileEngineURL : {FALSE},
   dayMode : {"day"}]

CloudPlanets == [nightImageURL : {TRUE}, cloudsURL : BOOLEAN]

CloudInit ==
  /\ planet \in CloudPlanets
  /\ opts \in CloudOpts
  /\ asked = opts.dayMode
  /\ Constructed

CloudNext ==
  \/ ReadyStart(<<0, 0>>)
  \/ ThreeImported
  \/ CloudsLoaded
  \/ Tick
  \/ ReadyTimerFire
  \/ \E show \in BOOLEAN : ShowCloudsCall(show)
  \/ CloudBuildDone
  \/ CloudBuildFailed
  \/ Frame

CloudSpec == CloudInit /\ [][CloudNext]_vars

----------------------------------------------------------------------------
(* The idle resume on its own, with the host's event loop running: time    *)
(* passes while a timer is pending, and a timer that is due has its        *)
(* callback run                                                            *)

IdleOpts ==
  [autoRotateSpeed : {35},
   autoSpinAfterIdleMs : {2},
   interactionSpinThreshold : {2000},
   onlySpinAboveAltitude : {80000},
   showClouds : {FALSE},
   tileEngineURL : {FALSE},
   dayMode : {"day"}]

IdleSamples ==
  {[lat |-> 0, lng |-> 0, altitude |-> a] : a \in {80000, 82000, 84000, 500000}}

IdleInit ==
  /\ opts \in IdleOpts
  /\ planet \in PlanetChoices
  /\ asked = opts.dayMode
  /\ Constructed

IdleNext ==
  \/ ReadyStart(<<0, 0>>)
  \/ ReadyTimerFire
  \/ \E s \in IdleSamples : ViewSample(s)
  \/ Click("Globe")
  \/ \E speed \in CallSpeeds : SpinGlobeCall(speed)
  \/ IdleTimerFire
  \/ Tick

IdleSpec ==
  IdleInit /\ [][IdleNext]_vars /\ WF_vars(Tick) /\ WF_vars(IdleTimerFire)

----------------------------------------------------------------------------
(* Day/night shading with everything else going on: clouds, clicks, view   *)
(* samples and spinGlobe calls around the sun's interval.  The clouds are  *)
(* built by the ready handler; a build the caller starts stays in flight   *)

SunOpts ==
  [autoRotateSpeed : {35},
   autoSpinAfterIdleMs : {0},
   interactionSpinThreshold : {2000},
   onlySpinAboveAltitude : {80000},
   showClouds : {TRUE},
   tileEngineURL : {FALSE},
   dayMode : {"daynight"}]

SunSamples == {[lat |-> 0, lng |-> 0, altitude |-> 500000],
               [lat |-> 30, lng |-> 15, altitude |-> 140000]}

SunInit ==
  /\ planet \in PlanetChoices
  /\ \E o \in SunOpts :
       /\ asked = o.dayMode
       /\ opts = [o EXCEPT !.dayMode = DayModeFor(o.dayMode, planet)]
  /\ Constructed

SunNext ==
  \/ ReadyStart(<<0, 0>>)
  \/ ThreeImported
  \/ SurfaceLoaded
  \/ CloudsLoaded
  \/ ReadyTimerFire
  \/ \E s \in SunSamples : ViewSample(s)
  \/ Click("Globe")
  \/ SpinGlobeCall(Some(0))
  \/ \E show \in BOOLEAN : ShowCloudsCall(show)
  \/ Frame
  \/ \E dt \in Instants : SunTimerFire(dt)
  \/ Elapse(SunPeriod)

SunSpec == SunInit /\ [][SunNext]_vars

----------------------------------------------------------------------------
(* The loading of the rendering library: a tiled surface and clouds, whose *)
(* builds the ready handler starts one after the other and the caller's    *)
(* showClouds starts whenever it likes                                     *)

LoadOpts ==
  [autoRotateSpeed : {35},
   autoSpinAfterIdleMs : {0},
   interactionSpinThreshold : {2000},
   onlySpinAboveAltitude : {80000},
   showClouds : BOOLEAN,
   tileEngineURL : {TRUE},
   dayMode : {"day"}]

LoadInit ==
  /\ opts \in LoadOpts
  /\ planet \in PlanetChoices
  /\ asked = opts.dayMode
  /\ Constructed

LoadNext ==
  \/ ReadyStart(<<0, 0>>)
  \/ ThreeImported
  \/ SurfaceLoaded
  \/ CloudsLoaded
  \/ ReadyTimerFire
  \/ Tick
  \/ \E show \in BOOLEAN : ShowCloudsCall(show)
  \/ CloudBuildDone

LoadSpec == LoadInit /\ [][LoadNext]_vars

----------------------------------------------------------------------------
(* The user's callbacks: the caller registers zoom and click callbacks     *)
(* before or after the controller is ready                                 *)

Callbacks == {"f", "h"}
CallbackSamples ==
  {[lat |-> 0, lng |-> 0, altitude |-> a] : a \in {82000, 500000}}
CallbackElements == {"Globe", "Point"}

CallbackNext ==
  \/ ReadyStart(<<0, 0>>)
  \/ ReadyTimerFire
  \/ Tick
  \/ IdleTimerFire
  \/ \E s \in CallbackSamples : ViewSample(s)
  \/ \E el \in CallbackElements : Click(el)
  \/ \E cb \in Callbacks : OnZoom(Some(cb))
  \/ \E el \in CallbackElements, cb \in Callbacks : OnClick(el, Some(cb))

CallbackSpec == IdleInit /\ [][CallbackNext]_vars

----------------------------------------------------------------------------
(* The spin controller *)

Interacted == lastOp.interaction
\* the pending idle timer the handle _nonInteractionTimer names
ArmedTimers == {t \in IdleTimers : Some(t.id) = _nonInteractionTimer}

\* C1: when the controller is ready and autoSpinAfterIdleMs > 0, every
\* interaction (a click on any element, or a view sample whose altitude
\* differs from the previous sample's by more than interactionSpinThreshold)
\* deactivates rotation in that very step and leaves an idle timer pending
\* that is armed with the full autoSpinAfterIdleMs.
C1_InteractionStopsAndArms ==
  [][(/\ _globeready
      /\ opts.autoSpinAfterIdleMs > 0
      /\ \/ lastOp'.op = "Click"
         \/ /\ lastOp'.op = "ViewSample"
            /\ _prevLatLngAlt # Undefined
            /\ Abs(Val(_prevLatLngAlt).altitude - pov'.altitude)
                 > opts.interactionSpinThreshold)
     => (/\ ~controls'.autoRotate
         /\ \E t \in timers' :
              /\ t.kind = "idle"
              /\ _nonInteractionTimer' = Some(t.id)
              /\ t.remaining = opts.autoSpinAfterIdleMs)]_vars

\* a view sample has just stopped the spin and re-armed a timer that was
\* already running
C1_Witness ==
  /\ _globeready
  /\ lastOp.op = "ViewSample"
  /\ lastOp.calls = <<Some(0)>>
  /\ lastOp.cleared = 1
  /\ ~controls.autoRotate
  /\ \E t \in ArmedTimers : t.remaining = opts.autoSpinAfterIdleMs

\* C2: at most one idle-resume timer is pending in every reachable state:
\* every pending idle timer is the one the handle names, a handle always
\* names a pending timer (a new timer cancels the previous one), and a timer
\* that fires leaves the handle cleared.
C2_OneIdleTimer ==
  /\ Cardinality(IdleTimers) <= 1
  /\ IdleTimers = ArmedTimers
  /\ _nonInteractionTimer # Undefined => ArmedTimers # {}
  /\ lastOp.op = "IdleTimerFire" => _nonInteractionTimer = Undefined

\* a click has just cancelled the pending timer and started a new one
C2_Witness ==
  /\ lastOp.op = "Click"
  /\ lastOp.cleared = 1
  /\ Cardinality(IdleTimers) = 1

\* C3: with idle delay D = autoSpinAfterIdleMs, the controller never
\* re-activates rotation on its own earlier than D after the most recent
\* interaction: the resume check runs only when D has passed since the last
\* interaction, at most once per interaction, and while an idle timer is
\* pending nothing but an interaction, the timer's expiry or the caller's
\* own spinGlobe changes the rotation state.
C3_NoEarlyResume ==
  [][/\ lastOp'.op = "IdleTimerFire"
        => /\ sinceInteraction >= opts.autoSpinAfterIdleMs
           /\ resumeChecks = 0
           /\ resumeChecks' = 1
     /\ (IdleTimers # {} /\ spinState' # spinState)
        => \/ lastOp'.op = "SpinGlobeCall"
           \/ lastOp'.interaction
           \/ lastOp'.op = "IdleTimerFire"]_vars

\* the timer of an interaction has expired after the full delay and the
\* resume check has re-activated rotation
C3_Witness ==
  /\ lastOp.op = "IdleTimerFire"
  /\ lastOp.calls = <<Undefined>>
  /\ controls.autoRotate
  /\ resumeChecks = 1
  /\ sinceInteraction = opts.autoSpinAfterIdleMs

\* C4 as claimed: when the idle timer expires, rotation is re-activated only
\* if the camera altitude is at most onlySpinAboveAltitude; above it the
\* resume is skipped and spin remains as it was (stopped).
C4_ResumeAtOrBelowCeiling ==
  [][lastOp'.op = "IdleTimerFire"
     => IF pov.altitude <= opts.onlySpinAboveAltitude
          THEN TRUE
          ELSE lastOp'.calls = <<>> /\ spinState' = spinState]_vars

\* C4 (amended): when the idle timer expires, rotation is re-activated (by
\* spinGlobe()) if and only if the camera altitude at that moment is strictly
\* greater than onlySpinAboveAltitude; at or below it the resume is skipped
\* and the rotation state stays as it was.
C4_ResumeOnlyAboveAltitude ==
  [][lastOp'.op = "IdleTimerFire"
     => IF pov.altitude > opts.onlySpinAboveAltitude
          THEN lastOp'.calls = <<Undefined>> /\ controls'.autoRotate
          ELSE lastOp'.calls = <<>> /\ spinState' = spinState]_vars

\* the timer expired with the camera at altitude 2.5, above the 0.4 of
\* onlySpinAboveAltitude, and rotation is active again
C4_Witness ==
  /\ lastOp.op = "IdleTimerFire"
  /\ pov.altitude = 500000
  /\ opts.onlySpinAboveAltitude = 80000
  /\ controls.autoRotate
  /\ _nonInteractionTimer = Undefined

\* the speed spinGlobe() resumes at: the last non-zero speed set, or else
\* the configured autoRotateSpeed
ResumeSpeed == IF lastSet # Undefined THEN lastSet
                                      ELSE Some(opts.autoRotateSpeed)

\* C5: only spinGlobe writes the rotation state, and every call
\* spinGlobe(speed) has this effect: speed 0 deactivates rotation and leaves
\* the stored speed unchanged; speed null/undefined activates rotation at
\* the last non-zero speed set, or at autoRotateSpeed if none was set; any
\* other speed (negative too) is stored and rotation is active with it.
C5_SpinGlobeContract ==
  [][/\ lastOp'.calls = <<>> => spinState' = spinState
     /\ lastOp'.calls # <<>> =>
          LET speed == lastOp'.calls[1]
          IN  /\ Len(lastOp'.calls) = 1
              /\ IF speed = Some(0)
                   THEN /\ ~controls'.autoRotate
                        /\ _spinspeed' = _spinspeed
                   ELSE IF speed = Undefined
                     THEN /\ controls'.autoRotate
                          /\ _spinspeed' = ResumeSpeed
                          /\ controls'.autoRotateSpeed = ResumeSpeed
                     ELSE /\ controls'.autoRotate
                          /\ _spinspeed' = speed
                          /\ controls'.autoRotateSpeed = speed]_vars

\* spinGlobe() has just resumed the backward speed -0.2 set before, where
\* the configured speed is another one
C5_Witness ==
  /\ lastOp.calls = <<Undefined>>
  /\ lastSet = Some(-20)
  /\ controls = [autoRotate |-> TRUE, autoRotateSpeed |-> Some(-20)]
  /\ opts.autoRotateSpeed = 35

\* C6: for every non-zero speed s, after the calls spinGlobe(s),
\* spinGlobe(0), spinGlobe(undefined) in a row, rotation is active at speed
\* s (not at the configured autoRotateSpeed), whether the stop and the resume
\* come from the caller or from an interaction and the idle timer's expiry.
C6_StopResumeRestoresSpeed ==
  LET n == Len(hist)
  IN  (/\ n >= 3
       /\ Truthy(hist[n - 2])
       /\ hist[n - 1] = Some(0)
       /\ hist[n] = Undefined)
      => /\ controls.autoRotate
         /\ controls.autoRotateSpeed = hist[n - 2]

\* spinGlobe(-0.2), then an interaction's stop, then the idle timer's resume:
\* the globe spins at -0.2 again, not at the configured 0.35
C6_Witness ==
  /\ Len(hist) >= 3
  /\ SubSeq(hist, Len(hist) - 2, Len(hist)) = <<Some(-20), Some(0), Undefined>>
  /\ lastOp.op = "IdleTimerFire"
  /\ opts.autoRotateSpeed = 35
  /\ controls = [autoRotate |-> TRUE, autoRotateSpeed |-> Some(-20)]

\* C7: while _globeready is false no click and no view sample changes the
\* rotation state or starts an idle timer; _globeready is false from
\* construction until the 1 ms timer set at the end of the ready handler
\* fires, and once true it stays true.
C7_IgnoredUntilReady ==
  [][/\ (~_globeready /\ lastOp'.interaction)
        => /\ spinState' = spinState
           /\ idleState' = idleState
     /\ _globeready => _globeready'
     /\ (~_globeready /\ _globeready')
        => /\ lastOp'.op = "ReadyTimerFire"
           /\ readyPc = "tickPending"
     /\ (readyPc # "tickPending" /\ readyPc' = "tickPending")
        => /\ ~_globeready'
           /\ \E t \in timers' : t.kind = "ready" /\ t.remaining = 1
     /\ readyPc' \in {"constructed", "awaitSurface", "awaitClouds", "failed"}
        => ~_globeready']_vars

\* the ready handler has ended but its timer has not fired yet: a click
\* arrives and the globe keeps spinning, no idle timer started
C7_Witness ==
  /\ ~_globeready
  /\ readyPc = "tickPending"
  /\ opts.autoSpinAfterIdleMs > 0
  /\ lastOp.op = "Click"
  /\ lastOp.interaction
  /\ controls.autoRotate
  /\ IdleTimers = {}

\* C8: a view sample counts as an interaction if and only if there is a
\* previous sample and the absolute difference of the two altitudes is
\* strictly greater than interactionSpinThreshold; so the first sample never
\* counts, and a sample that changes latitude or longitude alone never counts.
C8_AltitudeChangeIsInteraction ==
  [][lastOp'.op = "ViewSample"
     => /\ lastOp'.interaction
           <=> /\ _prevLatLngAlt # Undefined
               /\ \/ pov'.altitude - Val(_prevLatLngAlt).altitude
                       > opts.interactionSpinThreshold
                  \/ Val(_prevLatLngAlt).altitude - pov'.altitude
                       > opts.interactionSpinThreshold
        /\ _prevLatLngAlt = Undefined => ~lastOp'.interaction
        /\ (_prevLatLngAlt # Undefined
              /\ Val(_prevLatLngAlt).altitude = pov'.altitude)
           => ~lastOp'.interaction
        /\ (_globeready /\ opts.autoSpinAfterIdleMs > 0
              /\ ~lastOp'.interaction)
           => spinState' = spinState /\ idleState' = idleState]_vars

\* a view sample 0.5 above the previous one has counted as an interaction
\* and stopped the spin
C8_Witness ==
  /\ lastOp.op = "ViewSample"
  /\ lastOp.interaction
  /\ lastOp.calls = <<Some(0)>>
  /\ pov.altitude = 500000
  /\ ~controls.autoRotate

\* C9: with autoSpinAfterIdleMs = 0 no click and no view sample changes the
\* rotation state, and no idle timer is ever pending.
C9_ZeroDelayNeverStops ==
  [][opts.autoSpinAfterIdleMs = 0
     => /\ lastOp'.op \in {"Click", "ViewSample"} => spinState' = spinState
        /\ IdleTimers = {}
        /\ {t \in timers' : t.kind = "idle"} = {}
        /\ _nonInteractionTimer' = Undefined]_vars

\* ready, autoSpinAfterIdleMs = 0: an altitude jump has counted as an
\* interaction and the globe still spins
C9_Witness ==
  /\ opts.autoSpinAfterIdleMs = 0
  /\ _globeready
  /\ lastOp.op = "ViewSample"
  /\ lastOp.interaction
  /\ controls.autoRotate

\* C10 as claimed: with autoRotateSpeed = 0, in no state after the ready
\* signal is controls.autoRotate true, unless spinGlobe was called with a
\* non-zero speed.
C10_NeverActive ==
  (opts.autoRotateSpeed = 0 /\ readyPc # "constructed" /\ lastSet = Undefined)
    => ~controls.autoRotate

\* C10 (amended): with autoRotateSpeed = 0, in every state after the ready
\* signal, unless spinGlobe was called with a non-zero speed, the globe does
\* not turn: controls.autoRotate is false, or it is true (after spinGlobe()
\* or after an idle-timer resume) with controls.autoRotateSpeed 0.
C10_ActiveOnlyAtSpeedZero ==
  (opts.autoRotateSpeed = 0 /\ readyPc # "constructed" /\ lastSet = Undefined)
    => (controls.autoRotate => controls.autoRotateSpeed = Some(0))

\* autoRotateSpeed = 0: the idle timer of an interaction has expired and set
\* controls.autoRotate, at speed 0
C10_Witness ==
  /\ opts.autoRotateSpeed = 0
  /\ lastSet = Undefined
  /\ lastOp.op = "IdleTimerFire"
  /\ controls = [autoRotate |-> TRUE, autoRotateSpeed |-> Some(0)]


----------------------------------------------------------------------------
(* The surface overlay *)

\* altitudes around and between the ends of the fade band
FadeGrid == {-2000, 0, 40000, 79998, 80000, 80002, 140000, 199998, 200000,
             200002, 500000}

\* C11: the opacity for an altitude a is (a - 0.4) / (1.0 - 0.4) clamped to
\* [0, 1]: exactly 0 for every a <= 0.4, exactly 1 for every a >= 1.0, and
\* never smaller for a larger a; so the opacity the surface has is always
\* within [0, 1].
C11_OpacityClampedRamp ==
  /\ \A a \in FadeGrid :
       /\ a <= opacity0alt => opacity(a) = 0
       /\ a >= opacity1alt => opacity(a) = OpacityOne
       /\ (opacity0alt < a /\ a < opacity1alt)
            => opacity(a) = a - opacity0alt
  /\ \A a, b \in FadeGrid : a <= b => opacity(a) <= opacity(b)
  /\ surfaceOpacity # Undefined => Val(surfaceOpacity) \in 0..OpacityOne

\* a view sample at altitude 0.7 has set the surface's opacity to one half
C11_Witness ==
  /\ lastOp.op = "ViewSample"
  /\ pov.altitude = 140000
  /\ surfaceOpacity = Some(60000)
  /\ _prevSurfaceOpacity = Some(60000)

\* C12: while no surface mesh is built, or no tileEngineURL is configured, a
\* view sample changes neither the surface opacity, nor the camera's near
\* and far planes, nor minDistance and maxDistance, nor the tilt.
C12_MappingNeedsTiledSurface ==
  [][(lastOp'.op = "ViewSample" /\ (~_surface \/ ~opts.tileEngineURL))
       => UNCHANGED <<surfaceOpacity, camera, limits, facing>>]_vars

\* a surface without tiles (day/night shading only) is built, and a view
\* sample inside the tilt hump has left opacity and tilt as they were
C12_Witness ==
  /\ lastOp.op = "ViewSample"
  /\ _surface
  /\ ~opts.tileEngineURL
  /\ pov.altitude = 5000
  /\ surfaceOpacity = Some(OpacityOne)
  /\ facing = Some(0)
  /\ camera.near = NearCoarse

\* C13 as the specification states it: once the tiled surface is built,
\* after each view sample the surface's opacity is the opacity for the
\* altitude of that sample.
C13_OpacityFollowsLatestSample ==
  (lastOp.op = "ViewSample" /\ _surface /\ opts.tileEngineURL)
    => surfaceOpacity = Some(opacity(pov.altitude))

\* C14 as the specification states it: on a built tiled surface the near
\* plane is 1e-5 if and only if the surface's opacity is 0.
C14_NearFineIffTransparent ==
  (_surface /\ opts.tileEngineURL)
    => (camera.near = NearFine <=> surfaceOpacity = Some(0))

\* C15 as the specification states it: far, minDistance and maxDistance are
\* set to 100 R, R (1 + 5 / 2^maxLevel) and far - R in every step that
\* switches the near plane, and no other view sample changes them.
C15_LimitsOnlyOnSwitch ==
  [][lastOp'.op = "ViewSample"
       => IF camera'.near # camera.near
            THEN /\ camera'.far = Some(GlobeRadius * 100)
                 /\ limits'.minDistance =
                      Some(GlobeRadius
                             * (2^LevelUnit + 5 * 2^(LevelUnit - maxLevel)))
                 /\ limits'.maxDistance = Some(GlobeRadius * 100 - GlobeRadius)
            ELSE camera'.far = camera.far /\ limits' = limits]_vars

\* altitudes below, in and above the tilt hump, a quarter of its width apart
TiltGrid == {-2500, 0, 2500, 5000, 7500, 10000, 12500, 15000, 82500, 85000}
TiltOffsets == {0, 2500, 5000, 7500, 80000}

\* C16: the tilt for an altitude is 0 for every altitude outside [0, 0.05],
\* it is 80 at altitude 0.025, and it is the same at equal distances below
\* and above 0.025; so the tilt the controls have is always within [0, 80].
C16_TiltHump ==
  /\ \A a \in TiltGrid : (a < startTiltAlt \/ a > endTiltAlt) => TiltY(a) = 0
  /\ TiltY(5000) = maxTiltY
  /\ \A d \in TiltOffsets : TiltY(5000 - d) = TiltY(5000 + d)
  /\ facing # Undefined => Val(facing) \in 0..maxTiltY

\* a view sample at altitude 0.025 has tilted the camera by 80
C16_Witness ==
  /\ lastOp.op = "ViewSample"
  /\ pov.altitude = 5000
  /\ facing = Some(maxTiltY)
  /\ surfaceOpacity = Some(0)

----------------------------------------------------------------------------
(* Day/night shading *)

\* C18: with dayMode 'daynight', a surface that is in the scene has had the
\* sun position computed and applied, and one interval timer is pending for
\* it; each computation (at the build, at each turn of the interval) leaves
\* the interval 60 s from its next turn.  With any other dayMode the sun
\* position is never computed and no such timer exists.
C18_SunLifeLoop ==
  /\ (opts.dayMode = "daynight" /\ surfaceInScene)
       => /\ sunDate # Undefined
          /\ sunPosition = Some(_sunPosAt(Val(sunDate)))
          /\ Cardinality(SunTimers) = 1
  /\ (opts.dayMode = "daynight"
        /\ lastOp.op \in {"SurfaceLoaded", "SunTimerFire"})
       => \A t \in SunTimers : t.remaining = SunPeriod
  /\ opts.dayMode # "daynight"
       => sunDate = Undefined /\ sunPosition = Undefined /\ SunTimers = {}

\* the interval has come round and moved the sun to where it is at 06:00 of
\* the next day
C18_Witness ==
  /\ lastOp.op = "SunTimerFire"
  /\ surfaceInScene
  /\ sunDate = Some(450)
  /\ sunPosition = Some(<<-272, -10>>)

\* C19 as the specification states it: with dayMode 'daynight', once the
\* surface is built, after each view sample the globeRotation uniform is the
\* (lng, lat) of that sample.
C19_RotationFollowsLatestSample ==
  (opts.dayMode = "daynight" /\ _surface /\ lastOp.op = "ViewSample")
    => globeRotation = Some(<<pov.lng, pov.lat>>)

----------------------------------------------------------------------------
(* The clouds overlay *)

\* C20: while the clouds are hidden, an animation frame runs each rotateClouds
\* callback still pending once and leaves none pending, no step asks for a
\* further one, and once none is pending the rotation of the clouds no longer
\* changes (but for a mesh built while hidden, which is given its first
\* step).
C20_RotationStopsWhenHidden ==
  [][/\ (lastOp'.op = "Frame" /\ ~_cloudsshown)
          => frames' = 0 /\ cloudsRotation' = cloudsRotation + frames
     /\ (~_cloudsshown /\ ~_cloudsshown') => frames' <= frames
     /\ (~_cloudsshown /\ ~_cloudsshown' /\ frames = 0
           /\ lastOp'.op \notin {"CloudsLoaded", "CloudBuildDone"})
          => cloudsRotation' = cloudsRotation]_vars

\* the clouds were shown and turning, were hidden, and the one frame after
\* that has run the last callback
C20_Witness ==
  /\ lastOp.op = "Frame"
  /\ ~_cloudsshown
  /\ _clouds # Undefined
  /\ cloudsInScene = {}
  /\ frames = 0
  /\ cloudsRotation >= 3

----------------------------------------------------------------------------
(* Claims about the overlay lifecycle *)

\* the caller's g.showClouds(show) was the step just taken
ShowStep(show) ==
  lastOp'.op = (IF show THEN "showClouds(true)" ELSE "showClouds(false)")

\* C21: a showClouds request equal to the current visibility flag changes
\* nothing: the flag, the mesh, the builds in flight, the scene, the pending
\* rotation callbacks and the rotation all stay as they were; so a second
\* showClouds(true), made while the first one's build is still in flight,
\* starts no second build.
C21_ShowCloudsIdempotent ==
  [][\A show \in BOOLEAN :
       ShowStep(show) /\ show = _cloudsshown
         => UNCHANGED <<_cloudsshown, cloudState, surfaceState, spinState>>]_vars

\* the caller asked for the clouds again while the first build was in flight
C21_Witness ==
  /\ lastOp.op = "showClouds(true)"
  /\ lastOp.shown
  /\ _clouds = Undefined
  /\ Cardinality(builds) = 1

\* C22: hiding a built cloud overlay takes its mesh out of the scene and
\* keeps it, rotation included; showing it again puts that same mesh back
\* into the scene and restarts its rotation, and starts no build.
C22_HideRetainsMesh ==
  [][/\ ShowStep(FALSE) /\ _cloudsshown /\ _clouds # Undefined
          => /\ _clouds' = _clouds
             /\ _clouds \cap cloudsInScene' = {}
             /\ cloudsRotation' = cloudsRotation
             /\ builds' = builds
     /\ ShowStep(TRUE) /\ ~_cloudsshown /\ _clouds # Undefined
          => /\ _clouds' = _clouds
             /\ _clouds \subseteq cloudsInScene'
             /\ builds' = builds
             /\ cloudsRotation' = cloudsRotation + 1
             /\ frames' > 0]_vars

\* the retained mesh has been shown again; no build is in flight
C22_Witness ==
  /\ lastOp.op = "showClouds(true)"
  /\ ~lastOp.shown
  /\ _clouds # Undefined
  /\ _clouds \subseteq cloudsInScene
  /\ builds = {}
  /\ frames > 0

\* the texture of a cloud build has loaded in the step just taken
BuildEnds == lastOp'.op \in {"CloudBuildDone", "CloudsLoaded"}

\* C23: hiding the clouds cancels no build in flight, and a build that ends
\* attaches its mesh to the scene whatever the visibility flag is and leaves
\* the flag alone; so the clouds can be in the scene with the flag false.
C23_HideDoesNotCancelBuild ==
  [][/\ ShowStep(FALSE) => builds' = builds
     /\ BuildEnds => /\ _clouds' # Undefined
                     /\ _clouds' \subseteq cloudsInScene'
                     /\ _cloudsshown' = _cloudsshown]_vars

\* a build begun before the clouds were hidden has ended: its mesh is in the
\* scene and the flag is false
C23_Witness ==
  /\ lastOp.op = "CloudBuildDone"
  /\ ~_cloudsshown
  /\ _clouds # Undefined
  /\ _clouds \subseteq cloudsInScene

\* C24: after a cloud texture has failed to load the overlay is not loaded
\* (no mesh, nothing in the scene, no build in flight, none retried), and
\* the next showClouds(true) starts a build again.
C24_ShowAfterFailureRebuilds ==
  [][/\ lastOp'.op = "CloudBuildFailed" /\ builds' = {} /\ _clouds = Undefined
          => _clouds' = Undefined /\ cloudsInScene' = {}
     /\ (/\ lastOp.op = "CloudBuildFailed"
         /\ builds = {}
         /\ _clouds = Undefined
         /\ ShowStep(TRUE))
          => builds' # {}]_vars

\* the ready handler has been lost to a texture that failed to load
HandlerLost ==
  \/ readyPc = "failed"
  \/ readyPc = "awaitClouds" /\ \A b \in builds : b.waiter # "ready"

\* C25: a surface or cloud texture that fails to load during startup does
\* not touch the spin controller: the rotation started at the ready signal
\* stays as it is, the ready handler still goes on to its callback and to
\* the tick that sets the ready flag, and an interaction made afterwards
\* still arms the idle timer when idle resume is configured.
C25_FailureIsLocal ==
  [][/\ lastOp'.op \in {"SurfaceFailed", "CloudBuildFailed"}
          => /\ UNCHANGED spinState
             /\ ~HandlerLost'
     /\ lastOp'.interaction /\ HandlerLost /\ opts.autoSpinAfterIdleMs > 0
          => _nonInteractionTimer' # Undefined]_vars

\* C26: a planet without a night image is shown in dayMode 'day' whatever
\* mode was asked for, and no solar computation is ever started for it (no
\* calculator, no sun position, no refresh timer); a planet without a
\* clouds image never has its clouds shown: the flag stays false, no build
\* starts, no mesh exists and no rotation callback is pending.
C26_MissingCapabilityDegrades ==
  /\ ~planet.nightImageURL
       => /\ opts.dayMode = "day"
          /\ ~_solar
          /\ sunDate = Undefined
          /\ sunPosition = Undefined
          /\ SunTimers = {}
  /\ ~planet.cloudsURL
       => /\ ~_cloudsshown
          /\ builds = {}
          /\ _clouds = Undefined
          /\ cloudsInScene = {}
          /\ frames = 0

\* day/night shading was asked for of a planet without a night image, its
\* tiled surface has been built, and the clouds it has not were asked for
C26_Witness ==
  /\ asked = "daynight"
  /\ ~planet.nightImageURL
  /\ ~planet.cloudsURL
  /\ surfaceInScene
  /\ lastOp.op = "showClouds(true)"

\* C27: once the controller has been torn down neither the sun's refresh
\* timer nor the idle timer acts: the sunPosition uniform is not written
\* and the rotation state does not change.
C27_NothingAfterTeardown ==
  [][tornDown /\ lastOp'.op \in {"SunTimerFire", "IdleTimerFire"}
       => sunPosition' = sunPosition /\ UNCHANGED spinState]_vars

\* C28: whatever the order of showClouds calls, build completions and
\* frames, at most one rotateClouds callback is pending; so a frame turns
\* the clouds by exactly one step of cloudsRotateSpeed.
C28_OneRotationLoop ==
  [][/\ frames' <= 1
     /\ lastOp'.op = "Frame" /\ _cloudsshown
          => cloudsRotation' = cloudsRotation + 1]_vars

\* C29: whatever the order of showClouds calls and build completions, at
\* most one cloud build is in flight, at most one cloud mesh is in the
\* scene, and a mesh in the scene is the one _clouds refers to, so that the
\* next showClouds(false) takes it out.
C29_OneBuildOneMesh ==
  /\ Cardinality(builds) <= 1
  /\ Cardinality(cloudsInScene) <= 1
  /\ cloudsInScene \subseteq _clouds

\* the ready handler has gone past the call of the user's ready callback
CallbackReached == readyPc \in {"tickPending", "done"}

\* C30: the ready handler first starts the rotation, then has the surface
\* built (when tiles or day/night shading are configured), then the clouds
\* (when they are configured and the planet has them), then calls the
\* user's ready callback, and sets the ready flag one timer tick later: the
\* callback is reached only with both builds complete, and the flag is set
\* only after it.
C30_ReadyOrder ==
  /\ readyPc # "constructed" => hist # <<>>
  /\ CallbackReached
       => /\ NeedsSurface => _surface /\ surfaceInScene
          /\ opts.showClouds /\ planet.cloudsURL => _clouds # Undefined
  /\ readyPc = "tickPending" => ~_globeready /\ ReadyTimers # {}
  /\ _globeready => readyPc = "done"

----------------------------------------------------------------------------
(* Claims about timers, samples and the rendering library *)

\* the step just taken called spinGlobe(0)
StopsSpin == \E i \in 1..Len(lastOp'.calls) : lastOp'.calls[i] = Some(0)

\* C31: with the controller ready and idle resume configured, a pending
\* idle timer expires unless a further interaction comes first; its expiry
\* leaves no idle timer pending and, when the camera is above
\* onlySpinAboveAltitude, the rotation active; and active rotation ends only
\* with an interaction or a spinGlobe(0).
C31_IdleResumeLiveness ==
  /\ (IdleTimers # {} /\ ~lastOp.interaction)
       ~> (IdleTimers = {} \/ lastOp.interaction)
  /\ [][/\ lastOp'.op = "IdleTimerFire"
            => /\ IdleTimers' = {}
               /\ _nonInteractionTimer' = Undefined
               /\ ResumeWanted => controls'.autoRotate
        /\ controls.autoRotate /\ ~controls'.autoRotate
            => lastOp'.interaction \/ StopsSpin]_vars

\* the idle timer has expired above the ceiling and the globe spins again
C31_Witness ==
  /\ lastOp.op = "IdleTimerFire"
  /\ _globeready
  /\ IdleTimers = {}
  /\ controls.autoRotate
  /\ pov.altitude > opts.onlySpinAboveAltitude

\* C32: a spinGlobe call of the caller leaves the pending timers and the
\* idle timer's handle as they are; the idle timer's expiry runs the resume
\* check whatever the caller chose meanwhile: above onlySpinAboveAltitude it
\* activates the rotation (also after a spinGlobe(0) of the caller), and
\* otherwise it leaves the rotation state alone.
C32_SpinGlobeLeavesIdleTimer ==
  [][/\ lastOp'.op = "SpinGlobeCall" => UNCHANGED idleState
     /\ lastOp'.op = "IdleTimerFire"
          => IF ResumeWanted
               THEN /\ controls'.autoRotate
                    /\ lastOp'.calls = <<Undefined>>
               ELSE UNCHANGED spinState]_vars

\* the caller has stopped the globe with the idle timer pending and due,
\* above the ceiling: the timer is still there
C32_Witness ==
  /\ lastOp.op = "SpinGlobeCall"
  /\ lastOp.calls = <<Some(0)>>
  /\ ~controls.autoRotate
  /\ ResumeWanted
  /\ \E t \in IdleTimers : t.remaining = 0 /\ _nonInteractionTimer = Some(t.id)

\* C33: every view sample becomes the previous-sample record, ready or not
\* and interaction or not, and a sample counts as an interaction exactly
\* when its altitude differs from that of the record it finds by more than
\* interactionSpinThreshold: the first sample after ready is measured
\* against the last one before, and samples that creep by the threshold at
\* most never count, however far they get.
C33_PrevSampleAlwaysReplaced ==
  [][lastOp'.op = "ViewSample"
       => /\ _prevLatLngAlt' = Some(pov')
          /\ lastOp'.interaction
               <=> /\ _prevLatLngAlt # Undefined
                   /\ Abs(Val(_prevLatLngAlt).altitude - pov'.altitude)
                        > opts.interactionSpinThreshold]_vars

\* the camera has crept to twice the threshold above the ceiling with the
\* controller ready, and nothing has ever stopped the rotation
C33_Witness ==
  /\ lastOp.op = "ViewSample"
  /\ ~lastOp.interaction
  /\ _globeready
  /\ _prevLatLngAlt = Some(pov)
  /\ pov.altitude = opts.onlySpinAboveAltitude
                      + 2 * opts.interactionSpinThreshold
  /\ hist = <<Some(opts.autoRotateSpeed)>>
  /\ controls.autoRotate

\* the step's one invocation is of callback cb with arguments args, made
\* when the controller had finished with the event
InvokedLast(cb, args) ==
  /\ Len(lastOp'.invoked) = 1
  /\ lastOp'.invoked[1].cb = cb
  /\ lastOp'.invoked[1].args = args
  /\ lastOp'.invoked[1].seen.prev = _prevLatLngAlt'
  /\ lastOp'.invoked[1].seen.controls = controls'
  /\ lastOp'.invoked[1].seen.timer = _nonInteractionTimer'

\* C34: a view sample invokes the registered zoom callback once and a click
\* the clicked element's registered click callback once, with the click's
\* arguments, when the controller has dealt with the event (interaction
\* handled, previous sample replaced), ready or not; without a registered
\* callback nothing is invoked; and registering a callback changes nothing
\* else, the controller's handling of the events included.
C34_CallbacksOncePerEvent ==
  [][/\ lastOp'.op = "ViewSample"
          => /\ _prevLatLngAlt' = Some(pov')
             /\ IF _onZoomCbfn = Undefined
                  THEN lastOp'.invoked = <<>>
                  ELSE InvokedLast(Val(_onZoomCbfn), <<>>)
     /\ lastOp'.op = "Click"
          => /\ lastOp'.interaction
             /\ lastOp'.event = <<>> => lastOp'.invoked = <<>>
             /\ lastOp'.event # <<>>
                  => LET el == lastOp'.event[1]
                         args == lastOp'.event[2]
                     IN  IF _onClickCbfn[el] = Undefined
                           THEN lastOp'.invoked = <<>>
                           ELSE InvokedLast(Val(_onClickCbfn[el]), args)
     /\ lastOp'.op \in {"OnZoom", "OnClick"}
          => UNCHANGED <<spinState, idleState, _prevLatLngAlt, _globeready>>
     /\ lastOp'.op \notin {"ViewSample", "Click"}
          => lastOp'.invoked = <<>>]_vars

\* before the controller is ready a click on a point has invoked the
\* callback registered for points, with both arguments of the click, while
\* another callback is registered for the globe
C34_Witness ==
  /\ lastOp.op = "Click"
  /\ ~_globeready
  /\ lastOp.event = <<"Point", <<"point", "event">>>>
  /\ _onClickCbfn["Point"] = Some("h")
  /\ _onClickCbfn["Globe"] = Some("f")
  /\ Len(lastOp.invoked) = 1
  /\ lastOp.invoked[1].cb = "h"
  /\ lastOp.invoked[1].args = <<"point", "event">>

\* C35: the sunPosition uniform changes only when the surface overlay is
\* created and when the sun's 60-second interval comes round: no view
\* sample, click, frame, spinGlobe call or showClouds call changes it or the
\* instant it was computed for, and of the shader's uniforms a view sample
\* changes at most globeRotation and the opacity.
C35_SunWrittenOnlyByTimer ==
  [][/\ sunPosition' # sunPosition \/ sunDate' # sunDate
          => lastOp'.op \in {"SurfaceLoaded", "SunTimerFire"}
     /\ lastOp'.op \in {"ViewSample", "Click", "Frame", "SpinGlobeCall",
                        "showClouds(true)", "showClouds(false)"}
          => UNCHANGED <<sunPosition, sunDate, _solar>>]_vars

\* with the sun placed, clouds turning and the globe stopped by the caller,
\* a view sample has set the globe's rotation uniform and left the sun alone
C35_Witness ==
  /\ lastOp.op = "ViewSample"
  /\ globeRotation = Some(<<15, 30>>)
  /\ sunDate = Some(450)
  /\ sunPosition = Some(_sunPosAt(450))
  /\ frames > 0
  /\ hist[Len(hist)] = Some(0)


\* the view sample a step has just handled differs in altitude from the
\* sample before it by more than the epsilon of the onZoom handler
AltitudeMoved ==
  /\ _prevLatLngAlt # Undefined
  /\ Abs(Val(_prevLatLngAlt).altitude - Val(_prevLatLngAlt').altitude)
       > AltitudeEpsilon

\* C36 as stated: every view sample whose altitude differs from the previous
\* sample's by more than 1e-5 sets the facing target's y to
\* tiltForAltitude(its altitude), and no other sample changes the tilt
C36_TiltOnEveryAltitudeChange ==
  [][lastOp'.op = "ViewSample"
       => IF AltitudeMoved
            THEN facing' = Some(TiltY(Val(_prevLatLngAlt').altitude))
            ELSE facing' = facing]_vars

\* C36 amended: while a tiled surface is active (the surface mesh is built
\* and tileEngineURL is configured), a view sample whose altitude differs
\* from the previous sample's by more than 1e-5 sets the y of the facing
\* target to tiltForAltitude(its altitude); every other view sample,
\* and every sample without an active tiled surface, leaves the facing
\* target as it was
C36_TiltOnAltitudeChangeOverTiles ==
  [][lastOp'.op = "ViewSample"
       => IF AltitudeMoved /\ _surface /\ opts.tileEngineURL
            THEN facing' = Some(TiltY(Val(_prevLatLngAlt').altitude))
            ELSE facing' = facing]_vars

\* over a tiled surface a sample at the middle of the tilt band, coming from
\* above the band, has tilted the camera by the full maxTiltY
C36_Witness ==
  /\ lastOp.op = "ViewSample"
  /\ _surface /\ opts.tileEngineURL
  /\ _prevLatLngAlt = Some([lat |-> 0, lng |-> 0, altitude |-> 5000])
  /\ _prevSurfaceOpacity = Some(0)
  /\ camera.near = NearFine
  /\ facing = Some(maxTiltY)


\* C37: once the ready handler has run, whenever rotation is active the
\* speed of the orbit control is defined and is the most recent non-zero
\* speed passed to spinGlobe, or the configured autoRotateSpeed if no
\* non-zero speed was ever passed, whatever spinGlobe calls, interactions
\* and timer expiries came before.
C37_ActiveSpeedDefined ==
  (readyPc # "constructed" /\ controls.autoRotate)
    => /\ controls.autoRotateSpeed # Undefined
       /\ controls.autoRotateSpeed = ResumeSpeed

\* configured not to spin, the ready controller was set spinning backward
\* by the caller, stopped, and resumed by the caller's spinGlobe()
C37_Witness ==
  /\ _globeready
  /\ opts.autoRotateSpeed = 0
  /\ lastOp.op = "SpinGlobeCall"
  /\ hist = <<Some(-20), Some(0), Undefined>>
  /\ controls = [autoRotate |-> TRUE, autoRotateSpeed |-> Some(-20)]


\* C38: the rendering library is initialized once per controller: however
\* the surface build and the cloud builds overlap, the library is imported
\* and controls.update is wrapped with the facing-target override at most
\* once.
C38_LibraryInitializedOnce ==
  three.pending + three.wraps <= 1

============================================================================
